---- MODULE Spec2Model ----
(***************************************************************************)
(* Booking store, booking form and schedule of the equipment booking       *)
(* portal (src/App.tsx), with the remote gateway (src/api.ts) as the       *)
(* environment.                                                            *)
(*                                                                         *)
(* Strings that the code trims, splits or joins are sequences of           *)
(* one-character strings, so that trim/split/join are computed.  Strings   *)
(* that are only compared (classroom, status, type) are TLA+ strings.      *)
(* A stored bookingDate string is [ymd, time]: its first ten characters    *)
(* (a day number) and its UTC hour, NoTime for a plain YYYY-MM-DD string.  *)
(* Timestamps (createdAt, Date.now()) are integers.                        *)
(***************************************************************************)
EXTENDS Integers, Sequences, FiniteSets, TLC

VARIABLES
    bookings,     \* BookingsProvider state `bookings` (the cache)
    loading,      \* BookingsProvider state `loading`
    clock,        \* the value Date.now() returns
    inflight,     \* the store calls awaiting a gateway response
    swal,         \* the popup Swal.fire shows (one at a time)
    thrown,       \* an error left deleteBooking for a caller outside these files
    started,      \* the number of store calls started so far
    form,         \* BookingForm's fields as last submitted
    response,     \* the getBookings or createBooking response that the last step handled, if it did
    rawInput,     \* the raw record handed to sanitizeBooking
    sanitized,    \* the record sanitizeBooking returned for rawInput
    user,         \* AuthProvider state `user`
    isLoading,    \* AuthProvider state `isLoading`
    localStorage, \* the item 'currentUser' of localStorage
    logins,       \* the login calls awaiting api.login
    loginResult,  \* what the login call that settled last returned (false before any)
    schedule,     \* BookingSchedulePage as rendered: selectedDate and the grid's cells
    report        \* ReportsPage as rendered: the filters and displayedBookings

storeVars == <<bookings, loading, clock, inflight, swal, thrown, started, form,
               response, rawInput, sanitized>>

authVars == <<user, isLoading, localStorage, logins, loginResult>>

viewVars == <<schedule, report>>

vars == <<storeVars, authVars, viewVars>>

---------------------------------------------------------------------------
(* Bounds of the model *)

MaxClock == 2        \* Date.now() ranges over 1..MaxClock
MaxFetch == 2        \* records in one getBookings response
MaxCalls == 3        \* store calls started in one run
MaxItems == 2        \* elements of a raw equipment array handed to sanitizeBooking
MaxLogins == 2       \* login calls awaiting api.login at one time
MaxText == 4         \* characters of a raw equipment string handed to sanitizeBooking

---------------------------------------------------------------------------
(* Strings as character sequences *)

SP == " "
COMMA == ","

None == [kind |-> "none"]

RECURSIVE TrimStart(_)
TrimStart(s) ==
    IF s # <<>> /\ Head(s) = SP THEN TrimStart(Tail(s)) ELSE s

RECURSIVE TrimEnd(_)
TrimEnd(s) ==
    IF s # <<>> /\ s[Len(s)] = SP THEN TrimEnd(SubSeq(s, 1, Len(s) - 1)) ELSE s

\* String.prototype.trim
Trim(s) == TrimEnd(TrimStart(s))

\* String.prototype.split(','): the pieces between commas, empty ones included
RECURSIVE Split(_)
Split(s) ==
    IF \E i \in 1..Len(s) : s[i] = COMMA
    THEN LET i == CHOOSE k \in 1..Len(s) :
                     s[k] = COMMA /\ \A j \in 1..(k - 1) : s[j] # COMMA
         IN  <<SubSeq(s, 1, i - 1)>> \o Split(SubSeq(s, i + 1, Len(s)))
    ELSE <<s>>

\* Array.prototype.map(e => e.trim())
RECURSIVE MapTrim(_)
MapTrim(items) ==
    IF items = <<>> THEN <<>> ELSE <<Trim(Head(items))>> \o MapTrim(Tail(items))

\* Array.prototype.filter(e => e.length > 0)
RECURSIVE FilterNonEmpty(_)
FilterNonEmpty(items) ==
    IF items = <<>> THEN <<>>
    ELSE (IF Len(Head(items)) > 0 THEN <<Head(items)>> ELSE <<>>)
         \o FilterNonEmpty(Tail(items))

\* Array.prototype.join(','), what a spreadsheet-backed gateway stores
RECURSIVE Join(_)
Join(items) ==
    IF items = <<>> THEN <<>>
    ELSE IF Len(items) = 1 THEN items[1]
    ELSE items[1] \o <<COMMA>> \o Join(Tail(items))

Range(s) == {s[i] : i \in 1..Len(s)}

SeqsUpTo(S, n) == UNION {[1..k -> S] : k \in 0..n}

---------------------------------------------------------------------------
(* sanitizeBooking *)

\* The shapes booking.equipment arrives in: an array, a string, anything else.
ArrayOf(items) == [kind |-> "array", items |-> items, text |-> <<>>]
StringOf(text) == [kind |-> "string", items |-> <<>>, text |-> text]
OtherShape == [kind |-> "other", items |-> <<>>, text |-> <<>>]

SanitizeEquipment(equipment) ==
    IF equipment.kind = "array" THEN equipment.items
    ELSE IF equipment.kind = "string"
         THEN FilterNonEmpty(MapTrim(Split(equipment.text)))
    ELSE <<>>

sanitizeBooking(booking) ==
    [booking EXCEPT !.equipment = SanitizeEquipment(booking.equipment)]

---------------------------------------------------------------------------
(* Data: src/unnamed/part_000 (types), src/constants.ts *)

ALL_STATUSES == {"Booked", "In Use", "Awaiting Return", "Returned", "Cancelled"}

\* const activeStatuses = ['Booked', 'In Use', 'Awaiting Return']
activeStatuses == {"Booked", "In Use", "Awaiting Return"}

\* BookingType: "book" stands for the reservation kind, "borrow" for immediate use
BookingTypes == {"book", "borrow"}

ClassA == "P.1A TP"
ClassB == "P.2A TP"

\* two of EQUIPMENT_LIST's names, and a free-text "other" item
TV == <<"t", "v">>
REMOTE == <<"r">>

\* A stored bookingDate: "YYYY-MM-DD" (time = NoTime) or a full UTC timestamp
NoTime == -1
PlainDate(day) == [ymd |-> day, time |-> NoTime]
Timestamp(day, hour) == [ymd |-> day, time |-> hour]

\* b.bookingDate.substring(0, 10)
DatePart(bookingDate) == bookingDate.ymd

\* Intl.DateTimeFormat('en-CA', {timeZone: 'Asia/Bangkok'}).format(new Date(s)):
\* a plain date is UTC midnight, Bangkok is UTC+7
BangkokOffset == 7
HoursPerDay == 24
BangkokDate(bookingDate) ==
    IF bookingDate.time = NoTime THEN bookingDate.ymd
    ELSE IF bookingDate.time + BangkokOffset >= HoursPerDay
         THEN bookingDate.ymd + 1
    ELSE bookingDate.ymd

\* A Booking as the gateway sends it (equipment in any shape)
RawBooking(id, status, classroom, period, bookingDate, equipment, createdAt, type) ==
    [id |-> id, status |-> status, classroom |-> classroom, period |-> period,
     bookingDate |-> bookingDate, equipment |-> equipment,
     createdAt |-> createdAt, type |-> type,
     teacherName |-> "Kru A", lessonPlanName |-> "plan",
     optimistic |-> FALSE]   \* history: TRUE only on createBooking's placeholder

---------------------------------------------------------------------------
(* Helpers on the cache *)

RemoveAt(s, i) == SubSeq(s, 1, i - 1) \o SubSeq(s, i + 1, Len(s))

\* One step of the stable sort with comparator
\* (a, b) => new Date(b.createdAt).getTime() - new Date(a.createdAt).getTime():
\* b goes after every element that is not older than it.
InsertByCreatedAt(sorted, b) ==
    LET k == Cardinality({i \in 1..Len(sorted) : sorted[i].createdAt >= b.createdAt})
    IN  SubSeq(sorted, 1, k) \o <<b>> \o SubSeq(sorted, k + 1, Len(sorted))

RECURSIVE SortByCreatedAt(_)
SortByCreatedAt(s) ==
    IF s = <<>> THEN <<>>
    ELSE InsertByCreatedAt(SortByCreatedAt(SubSeq(s, 1, Len(s) - 1)), s[Len(s)])

\* data.map(sanitizeBooking).sort(...)
sortedData(data) == SortByCreatedAt([k \in DOMAIN data |-> sanitizeBooking(data[k])])

---------------------------------------------------------------------------
(* The gateway (src/api.ts): what it can answer *)

ServerIds == 1..MaxClock     \* ids the backend assigns share the range of Date.now()

\* The records a getBookings answer is drawn from
ServerPool ==
    { RawBooking(1, "Booked", ClassA, 3, PlainDate(22), ArrayOf(<<TV>>), 1, "book"),
      RawBooking(1, "Returned", ClassA, 3, PlainDate(22), ArrayOf(<<TV>>), 1, "book"),
      RawBooking(2, "In Use", ClassB, 3, Timestamp(21, 17),
                 StringOf(<<"r", COMMA, SP>>), 2, "borrow") }

FetchAnswers == SeqsUpTo(ServerPool, MaxFetch)

\* The Booking a createBooking answer carries for the data sent.  The id and the
\* creation time are the backend's; the fields come back as sent, or as a
\* spreadsheet keeps them: the equipment comma-joined and the date as the
\* timestamp of that day's Bangkok midnight.
CreateAnswers(data, status, now) ==
    { [b EXCEPT !.teacherName = data.teacherName,
                !.lessonPlanName = data.lessonPlanName] :
        b \in { RawBooking(id, status, data.classroom, data.period, data.bookingDate,
                           ArrayOf(data.equipment), now, data.type) : id \in ServerIds }
               \cup
               { RawBooking(id, status, data.classroom, data.period,
                           Timestamp(data.bookingDate.ymd - 1, HoursPerDay - BangkokOffset),
                           StringOf(Join(data.equipment)), now, data.type) :
                   id \in ServerIds } }

---------------------------------------------------------------------------
(* Swal: one popup at a time; Swal.fire on an open popup replaces it, and the *)
(* handler awaiting the replaced popup sees it dismissed.                     *)

\* `await Swal.fire({showCancelButton: true, ...})` of a handler.  The handler
\* keeps the closure of the render it was created in, so the
\* updateBookingStatus it calls copies that render's `bookings`.
Confirm(handler, id, status, rendered) ==
    [kind |-> "confirm", handler |-> handler, id |-> id, status |-> status,
     rendered |-> rendered]

\* `const data = await api.getBookings()` got data
Answer(data) == [kind |-> "answer", data |-> data]

\* `const finalBooking = await api.createBooking(bookingData)` got finalBooking
Created(finalBooking) == [kind |-> "created", booking |-> finalBooking]

\* Swal.fire({icon, title: t(key), ...})
Alert(key) == [kind |-> "alert", key |-> key]

\* the LoadingIndicator popup of handleSubmit
Loader == [kind |-> "loader"]

\* the popup closes: its timer, its button, or the Escape key
CloseSwal ==
    /\ swal # None
    /\ swal.kind # "confirm"
    /\ swal' = None
    /\ UNCHANGED <<bookings, loading, clock, inflight, thrown, started, form, rawInput, sanitized>>
    /\ response' = None
    /\ UNCHANGED <<authVars, viewVars>>

---------------------------------------------------------------------------
(* BookingsProvider: the calls in flight *)

\* One store call awaiting its gateway response, with the handler awaiting it.
\* pre and clean are history: the cache when the call started, and whether no
\* other store operation has run since.
Call(op, caller, id, status, data, original, phase, pre) ==
    [op |-> op, caller |-> caller, id |-> id, status |-> status, data |-> data,
     originalBookings |-> original, phase |-> phase,
     pre |-> pre, clean |-> TRUE]

NoData == [type |-> "", classroom |-> "", period |-> 0,
           bookingDate |-> PlainDate(0), equipment |-> <<>>,
           teacherName |-> "", lessonPlanName |-> ""]

\* Every call in flight has seen another store operation run.  A create's pre is
\* only of use while it is clean, and is dropped with it.
Disturbed(calls) ==
    [i \in DOMAIN calls |->
        [calls[i] EXCEPT !.clean = FALSE,
                         !.pre = IF calls[i].op = "create" THEN <<>> ELSE @]]

---------------------------------------------------------------------------
(* BookingsProvider.fetchBookings *)

\* useEffect(() => { fetchBookings() }, [fetchBookings]): fetchBookings(false) up
\* to `await api.getBookings()`; it runs again when `t` changes (language toggle)
RefetchEffect ==
    /\ swal = None
    /\ started < MaxCalls
    /\ started' = started + 1
    /\ loading' = TRUE
    /\ inflight' = Append(Disturbed(inflight),
                          Call("fetch", "effect", 0, "", NoData, <<>>, "request",
                               bookings))
    /\ UNCHANGED <<bookings, clock, swal, thrown, form, rawInput, sanitized>>
    /\ response' = None
    /\ UNCHANGED <<authVars, viewVars>>

\* A plausible slip: the fetched records are appended to the cache
MergeFetched(prev, data) == prev \o sortedData(data)

\* setBookings(sortedData)
ReplaceFetched(prev, data) == sortedData(data)

\* getBookings answered: setBookings(sortedData), finally setLoading(false)
FetchBookingsOk(i, data) ==
    /\ i \in DOMAIN inflight
    /\ inflight[i].op = "fetch"
    /\ bookings' = ReplaceFetched(bookings, data)
    /\ loading' = FALSE
    /\ inflight' = Disturbed(RemoveAt(inflight, i))
    /\ UNCHANGED <<clock, swal, thrown, started, form, rawInput, sanitized>>
    /\ response' = Answer(data)
    /\ UNCHANGED <<authVars, viewVars>>

\* A plausible slip: the catch empties the cache
ClearedOnError(prev) == <<>>

\* the catch of fetchBookings makes no setBookings call
CacheAfterFetchError(prev) == prev

\* getBookings failed: the error is caught and shown; nothing is thrown
FetchBookingsFail(i) ==
    /\ i \in DOMAIN inflight
    /\ inflight[i].op = "fetch"
    /\ bookings' = CacheAfterFetchError(bookings)
    /\ loading' = FALSE
    /\ inflight' = Disturbed(RemoveAt(inflight, i))
    /\ swal' = Alert("fetchBookingsError")
    /\ UNCHANGED <<clock, thrown, started, form, rawInput, sanitized>>
    /\ response' = None
    /\ UNCHANGED <<authVars, viewVars>>

---------------------------------------------------------------------------
(* BookingsProvider.createBooking *)

\* A plausible slip: the kind is not looked at
newStatusAlwaysBooked(bookingData) == "Booked"

\* const newStatus = bookingData.type === 'borrow' ? 'In Use' : 'Booked'
newStatus(bookingData) == IF bookingData.type = "borrow" THEN "In Use" ELSE "Booked"

\* { id: tempId, status: newStatus, createdAt: new Date().toISOString(), ...bookingData }
optimisticBooking(bookingData, tempId, now) ==
    [id |-> tempId, status |-> newStatus(bookingData),
     classroom |-> bookingData.classroom, period |-> bookingData.period,
     bookingDate |-> bookingData.bookingDate, equipment |-> bookingData.equipment,
     createdAt |-> now, type |-> bookingData.type,
     teacherName |-> bookingData.teacherName,
     lessonPlanName |-> bookingData.lessonPlanName, optimistic |-> TRUE]

\* createBooking(bookingData) up to `await api.createBooking(bookingData)`:
\* tempId = Date.now(), setBookings(prev => [optimisticBooking, ...prev])
CreateBookingCall(bookingData) ==
    /\ started < MaxCalls
    /\ started' = started + 1
    /\ bookings' = <<optimisticBooking(bookingData, clock, clock)>> \o bookings
    /\ inflight' = Append(Disturbed(inflight),
                          Call("create", "handleSubmit", clock, "", bookingData, <<>>,
                               "request", bookings))

\* prev.map(b => (b.id === tempId ? processedFinalBooking : b))
ReplaceTemp(prev, tempId, final) ==
    [k \in DOMAIN prev |-> IF prev[k].id = tempId THEN final ELSE prev[k]]

\* prev.filter(b => b.id !== tempId)
RemoveTemp(prev, tempId) == SelectSeq(prev, LAMBDA b : b.id # tempId)

\* api.createBooking answered with finalBooking; handleSubmit shows the success
CreateBookingOk(i) ==
    /\ i \in DOMAIN inflight
    /\ inflight[i].op = "create"
    /\ \E finalBooking \in CreateAnswers(inflight[i].data, newStatus(inflight[i].data), clock) :
           /\ bookings' = ReplaceTemp(bookings, inflight[i].id, sanitizeBooking(finalBooking))
           /\ response' = Created(finalBooking)
    /\ inflight' = Disturbed(RemoveAt(inflight, i))
    /\ swal' = Alert("bookingSuccessTitle")
    /\ form' = None                  \* navigate('/') or onBookingSuccess: the form unmounts
    /\ UNCHANGED <<loading, clock, thrown, started, rawInput, sanitized>>
    /\ UNCHANGED <<authVars, viewVars>>

\* api.createBooking failed: the placeholder is filtered out and the error
\* re-thrown; handleSubmit catches it and shows bookingSaveError
CreateBookingFail(i) ==
    /\ i \in DOMAIN inflight
    /\ inflight[i].op = "create"
    /\ bookings' = RemoveTemp(bookings, inflight[i].id)
    /\ inflight' = Disturbed(RemoveAt(inflight, i))
    /\ swal' = Alert("bookingSaveError")
    /\ UNCHANGED <<loading, clock, thrown, started, form, rawInput, sanitized>>
    /\ response' = None
    /\ UNCHANGED <<authVars, viewVars>>

---------------------------------------------------------------------------
(* BookingsProvider.updateBookingStatus and deleteBooking *)

\* A plausible slip: the id is not compared
SetStatusOfAll(prev, id, status) ==
    [k \in DOMAIN prev |-> [prev[k] EXCEPT !.status = status]]

\* prev.map(b => b.id === id ? { ...b, status } : b)
SetStatus(prev, id, status) ==
    [k \in DOMAIN prev |-> IF prev[k].id = id THEN [prev[k] EXCEPT !.status = status] ELSE prev[k]]

\* prev.filter(b => b.id !== id)
RemoveId(prev, id) == SelectSeq(prev, LAMBDA b : b.id # id)

\* updateBookingStatus(id, status) up to `await api.updateBookingStatus(id, status)`.
\* `rendered` is the `bookings` of the render whose closure makes the call:
\* originalBookings = [...bookings] copies that, the updater works on the state.
UpdateBookingStatusCall(caller, id, status, rendered) ==
    /\ started < MaxCalls
    /\ started' = started + 1
    /\ bookings' = SetStatus(bookings, id, status)
    /\ inflight' = Append(Disturbed(inflight),
                          Call("update", caller, id, status, NoData, rendered,
                               "request", bookings))

\* The `bookings` that a consumer's call of deleteBooking can read: those of the
\* current render, or, when its handler has just called deleteBooking and calls
\* it again before React renders, those that the call before read.
ConsumerRenders ==
    {bookings}
    \cup (IF /\ inflight # <<>>
              /\ inflight[Len(inflight)].caller = "consumer"
              /\ inflight[Len(inflight)].phase = "request"
              /\ inflight[Len(inflight)].clean
           THEN {inflight[Len(inflight)].originalBookings}
           ELSE {})

\* deleteBooking(id) up to `await api.deleteBooking(id)`.  No handler of these
\* files calls it; a consumer of the context does.  `rendered` is the `bookings`
\* of the render whose value the consumer holds.
DeleteBookingCall(id, rendered) ==
    /\ swal = None
    /\ started < MaxCalls
    /\ started' = started + 1
    /\ bookings' = RemoveId(bookings, id)
    /\ inflight' = Append(Disturbed(inflight),
                          Call("delete", "consumer", id, "", NoData, rendered,
                               "request", bookings))
    /\ UNCHANGED <<loading, clock, swal, thrown, form, rawInput, sanitized>>
    /\ response' = None
    /\ UNCHANGED <<authVars, viewVars>>

IsMutation(call) == call.op \in {"update", "delete"}

\* what the awaiting handler shows when its updateBookingStatus resolved
SuccessAlert(call) ==
    IF call.caller = "handleReturn" THEN Alert("returnSuccess")
    ELSE IF call.caller = "handleDelete" THEN Alert("deleteBookingSuccess")
    ELSE IF call.caller = "handleCancelBooking" THEN Alert("cancelSuccessTitle")
    ELSE swal

\* what the awaiting handler's catch shows
ErrorAlert(call) ==
    IF call.caller = "handleReturn" THEN Alert("updateStatusError")
    ELSE IF call.caller = "handleDelete" THEN Alert("deleteBookingError")
    ELSE IF call.caller = "handleCancelBooking" THEN Alert("updateStatusError")
    ELSE swal

\* the remote request answered: `await fetchBookings(true)` starts
RemoteRequestOk(i) ==
    /\ i \in DOMAIN inflight
    /\ IsMutation(inflight[i])
    /\ inflight[i].phase = "request"
    /\ inflight' = [Disturbed(inflight) EXCEPT ![i] =
                        [inflight[i] EXCEPT !.phase = "refresh"]]
    /\ UNCHANGED <<bookings, loading, clock, swal, thrown, started, form, rawInput, sanitized>>
    /\ response' = None
    /\ UNCHANGED <<authVars, viewVars>>

\* setBookings(originalBookings)
Revert(prev, originalBookings) == originalBookings

\* the remote request failed: setBookings(originalBookings); throw error
RemoteRequestFail(i) ==
    /\ i \in DOMAIN inflight
    /\ IsMutation(inflight[i])
    /\ inflight[i].phase = "request"
    /\ bookings' = Revert(bookings, inflight[i].originalBookings)
    /\ inflight' = Disturbed(RemoveAt(inflight, i))
    /\ swal' = ErrorAlert(inflight[i])
    /\ thrown' = (thrown \/ inflight[i].caller = "consumer")
    /\ UNCHANGED <<loading, clock, started, form, rawInput, sanitized>>
    /\ response' = None
    /\ UNCHANGED <<authVars, viewVars>>

\* the silent refresh answered: setBookings(sortedData), the call resolves
SilentRefreshOk(i, data) ==
    /\ i \in DOMAIN inflight
    /\ IsMutation(inflight[i])
    /\ inflight[i].phase = "refresh"
    /\ bookings' = ReplaceFetched(bookings, data)
    /\ inflight' = Disturbed(RemoveAt(inflight, i))
    /\ swal' = SuccessAlert(inflight[i])
    /\ UNCHANGED <<loading, clock, thrown, started, form, rawInput, sanitized>>
    /\ response' = Answer(data)
    /\ UNCHANGED <<authVars, viewVars>>

\* the silent refresh failed: fetchBookings catches it, the call resolves
SilentRefreshFail(i) ==
    /\ i \in DOMAIN inflight
    /\ IsMutation(inflight[i])
    /\ inflight[i].phase = "refresh"
    /\ bookings' = CacheAfterFetchError(bookings)
    /\ inflight' = Disturbed(RemoveAt(inflight, i))
    /\ swal' = SuccessAlert(inflight[i])
    /\ UNCHANGED <<loading, clock, thrown, started, form, rawInput, sanitized>>
    /\ response' = None
    /\ UNCHANGED <<authVars, viewVars>>

---------------------------------------------------------------------------
(* DashboardPage.handleReturn / handleDelete, BookingSchedulePage.handleCancelBooking *)

\* the bookings the dashboard lists and the schedule shows as booked
ActiveIds(cache) ==
    {cache[i].id : i \in {j \in 1..Len(cache) : cache[j].status \in activeStatuses}}

\* the button is clicked: the handler awaits its confirmation popup
OpenConfirm(handler, id, status) ==
    /\ swal = None
    /\ ~loading                      \* while loading the pages render a Spinner
    /\ id \in ActiveIds(bookings)
    /\ swal' = Confirm(handler, id, status, bookings)
    /\ UNCHANGED <<bookings, loading, clock, inflight, thrown, started, form, rawInput, sanitized>>
    /\ response' = None
    /\ UNCHANGED <<authVars, viewVars>>

handleReturn(id) == OpenConfirm("handleReturn", id, "Returned")

\* A plausible slip: the workaround sends the status of a return
handleDeleteMarksReturned(id) == OpenConfirm("handleDelete", id, "Returned")

\* updateBookingStatus(bookingId, 'Cancelled') stands in for deleteBooking
handleDelete(id) == OpenConfirm("handleDelete", id, "Cancelled")
handleCancelBooking(id) == OpenConfirm("handleCancelBooking", id, "Cancelled")

\* result.isConfirmed: await updateBookingStatus(bookingId, status)
ConfirmDialog ==
    /\ swal # None
    /\ swal.kind = "confirm"
    /\ UpdateBookingStatusCall(swal.handler, swal.id, swal.status, swal.rendered)
    /\ swal' = None
    /\ UNCHANGED <<loading, clock, thrown, form, rawInput, sanitized>>
    /\ response' = None
    /\ UNCHANGED <<authVars, viewVars>>

\* the popup is cancelled: nothing is called
DismissDialog ==
    /\ swal # None
    /\ swal.kind = "confirm"
    /\ swal' = None
    /\ UNCHANGED <<bookings, loading, clock, inflight, thrown, started, form, rawInput, sanitized>>
    /\ response' = None
    /\ UNCHANGED <<authVars, viewVars>>

---------------------------------------------------------------------------
(* BookingForm.handleSubmit *)

\* The form's state.  period 0 is the unset '', bookingDate 0 the empty string.
Form(type, classroom, period, bookingDate, selectedEquipment, otherEquipment, blank) ==
    [type |-> type,
     teacherName |-> IF blank = "teacherName" THEN "" ELSE "Kru A",
     program |-> IF blank = "program" THEN "" ELSE "Thai Programme",
     classroom |-> classroom, period |-> period, bookingDate |-> bookingDate,
     learningUnitNumber |-> IF blank = "learningUnitNumber" THEN "" ELSE "1",
     learningUnitName |-> IF blank = "learningUnitName" THEN "" ELSE "unit",
     lessonPlanName |-> IF blank = "lessonPlanName" THEN "" ELSE "plan",
     selectedEquipment |-> selectedEquipment, otherEquipment |-> otherEquipment]

\* the condition of the first `if` of handleSubmit
FieldMissing(f) ==
    \/ f.teacherName = ""
    \/ f.program = ""
    \/ f.classroom = ""
    \/ f.period = 0
    \/ f.bookingDate = 0
    \/ f.learningUnitNumber = ""
    \/ f.learningUnitName = ""
    \/ f.lessonPlanName = ""
    \/ (Len(f.selectedEquipment) = 0 /\ Trim(f.otherEquipment) = <<>>)

finalEquipmentList(f) ==
    MapTrim(f.selectedEquipment)
    \o (IF Trim(f.otherEquipment) # <<>> THEN <<Trim(f.otherEquipment)>> ELSE <<>>)

\* A plausible slip: the status test is left out of the filter
bookingsAtSameTimeAnyStatus(f, cache) ==
    SelectSeq(cache,
              LAMBDA b : /\ DatePart(b.bookingDate) = f.bookingDate
                         /\ b.period = f.period)

\* A plausible slip: the period test is left out of the filter
bookingsAtSameDate(f, cache) ==
    SelectSeq(cache,
              LAMBDA b : /\ DatePart(b.bookingDate) = f.bookingDate
                         /\ b.status \in activeStatuses)

bookingsAtSameTime(f, cache) ==
    SelectSeq(cache,
              LAMBDA b : /\ DatePart(b.bookingDate) = f.bookingDate
                         /\ b.period = f.period
                         /\ b.status \in activeStatuses)

\* A plausible slip: the classroom check is left out
NoClassroomCheck(f, cache) == FALSE

\* bookingsAtSameTime.some(b => b.classroom === classroom)
isClassroomConflict(f, cache) ==
    \E b \in Range(bookingsAtSameTime(f, cache)) : b.classroom = f.classroom

\* bookingsAtSameTime.flatMap(b => b.equipment.map(eq => eq.trim()))
allBookedEquipmentAtTime(f, cache) ==
    UNION {Range(MapTrim(b.equipment)) : b \in Range(bookingsAtSameTime(f, cache))}

\* finalEquipmentList.some(reqEq => allBookedEquipmentAtTime.includes(reqEq.trim()))
isEquipmentConflict(f, cache) ==
    \E reqEq \in Range(finalEquipmentList(f)) :
        Trim(reqEq) \in allBookedEquipmentAtTime(f, cache)

\* A plausible slip: the equipment check comes first
SubmitOutcomeEquipmentFirst(f, cache) ==
    IF FieldMissing(f) THEN "formValidationError"
    ELSE IF isEquipmentConflict(f, cache) THEN "equipmentConflictTitle"
    ELSE IF isClassroomConflict(f, cache) THEN "bookingConflictTitle"
    ELSE "createBooking"

\* Which way handleSubmit goes, in the order the code tests: the title of the
\* popup it returns after, or "createBooking" when it reaches the call.
SubmitOutcome(f, cache) ==
    IF FieldMissing(f) THEN "formValidationError"
    ELSE IF isClassroomConflict(f, cache) THEN "bookingConflictTitle"
    ELSE IF isEquipmentConflict(f, cache) THEN "equipmentConflictTitle"
    ELSE "createBooking"

\* the argument of createBooking
bookingData(f) ==
    [type |-> f.type, classroom |-> f.classroom, period |-> f.period,
     bookingDate |-> PlainDate(f.bookingDate), equipment |-> finalEquipmentList(f),
     teacherName |-> f.teacherName, lessonPlanName |-> f.lessonPlanName]

\* A plausible slip: a conflict popup is shown but the handler does not return
ReachesCreateDespiteConflict(outcome) == outcome # "formValidationError"

\* createBooking is reached only when no earlier `return` was taken
ReachesCreate(outcome) == outcome = "createBooking"

\* the user fills the form in as `fields` and submits it
handleSubmit(fields) ==
    /\ swal = None
    /\ form' = fields
    /\ LET outcome == SubmitOutcome(fields, bookings)
       IN  IF ReachesCreate(outcome)
           THEN /\ CreateBookingCall(bookingData(fields))
                /\ swal' = Loader
           ELSE /\ swal' = Alert(outcome)
                /\ UNCHANGED <<bookings, inflight, started>>
    /\ UNCHANGED <<loading, clock, thrown, rawInput, sanitized>>
    /\ response' = None
    /\ UNCHANGED <<authVars, viewVars>>

---------------------------------------------------------------------------
(* BookingSchedulePage.bookingsForDateMap *)

\* A plausible slip: the stored string's date part is compared, as the form does
bookingsOnDateBySubstring(cache, selectedDate) ==
    SelectSeq(cache,
              LAMBDA b : /\ DatePart(b.bookingDate) = selectedDate
                         /\ b.status \in activeStatuses)

\* bookings.filter(b => bookingDateInBangkok === selectedDate && activeStatuses.includes(b.status))
bookingsOnDate(cache, selectedDate) ==
    SelectSeq(cache,
              LAMBDA b : /\ BangkokDate(b.bookingDate) = selectedDate
                         /\ b.status \in activeStatuses)

\* the key `${b.classroom}-${b.period}`
CellKey(b) == <<b.classroom, b.period>>

\* .forEach(b => map.set(key, b)): a later booking overwrites an earlier one
bookingsForDateMap(cache, selectedDate) ==
    LET shown == bookingsOnDate(cache, selectedDate)
        keys == {CellKey(shown[i]) : i \in 1..Len(shown)}
        last(k) == CHOOSE i \in 1..Len(shown) :
                       /\ CellKey(shown[i]) = k
                       /\ \A j \in (i + 1)..Len(shown) : CellKey(shown[j]) # k
    IN  [k \in keys |-> shown[last(k)]]

\* the days the date input of the schedule is set to
ScheduleDays == 21..24

\* the rows and columns of the grid: classes of the selected programme, PERIODS
Classrooms == {ClassA, ClassB}
Periods == {3, 4}

\* A plausible slip: the button is offered to every logged-in user
canCancelAnyUser(booking, currentUser) ==
    /\ currentUser # None
    /\ booking.status # "Returned"
    /\ booking.status # "Cancelled"

\* const canCancel of BookedSlotInfo
canCancel(booking, currentUser) ==
    /\ currentUser # None
    /\ (currentUser.role = "admin" \/ currentUser.name = booking.teacherName)
    /\ booking.status # "Returned"
    /\ booking.status # "Cancelled"

\* <BookedSlotInfo booking currentUser onCancel />, with its cancel button or not
BookedSlotInfo(booking, currentUser) ==
    [kind |-> "booked", booking |-> booking,
     cancelButton |-> canCancel(booking, currentUser)]

\* the button that opens the booking modal
AvailableSlot == [kind |-> "available"]

\* one <td>: bookingsForDateMap.get(`${classroom}-${period.id}`), then
\* bookingDetails ? <BookedSlotInfo .../> : the Available button
Cell(map, classroom, period, currentUser) ==
    IF <<classroom, period>> \in DOMAIN map
    THEN BookedSlotInfo(map[<<classroom, period>>], currentUser)
    ELSE AvailableSlot

\* setSelectedDate(e.target.value): BookingSchedulePage renders its grid
setSelectedDate(selectedDate) ==
    /\ user # None                   \* ProtectedRoute
    /\ ~loading                      \* loading ? <Spinner /> : the table
    /\ schedule' = [selectedDate |-> selectedDate,
                    cells |-> [cell \in Classrooms \X Periods |->
                                  Cell(bookingsForDateMap(bookings, selectedDate),
                                       cell[1], cell[2], user)]]
    /\ report' = None                \* one route is mounted at a time
    /\ UNCHANGED <<storeVars, authVars>>

---------------------------------------------------------------------------
(* ReportsPage.displayedBookings *)

\* the characters of the strings that the model keeps whole
Chars(str) ==
    CASE str = ClassA -> <<"P", ".", "1", "A", SP, "T", "P">>
      [] str = ClassB -> <<"P", ".", "2", "A", SP, "T", "P">>
      [] str = "Kru A" -> <<"K", "r", "u", SP, "A">>
      [] str = "Kru B" -> <<"K", "r", "u", SP, "B">>
      [] str = "plan" -> <<"p", "l", "a", "n">>
      [] OTHER -> <<>>

\* String.prototype.toLowerCase, on the letters in use
ToLowerCase(s) ==
    [i \in DOMAIN s |->
        CASE s[i] = "A" -> "a"
          [] s[i] = "B" -> "b"
          [] s[i] = "K" -> "k"
          [] s[i] = "P" -> "p"
          [] s[i] = "T" -> "t"
          [] OTHER -> s[i]]

\* String.prototype.includes
Includes(s, part) ==
    \E i \in 0..(Len(s) - Len(part)) : SubSeq(s, i + 1, i + Len(part)) = part

\* A plausible slip: the empty selection is not let through
statusFilterNoEmptyCase(b, selectedStatus) == b.status = selectedStatus

\* if (!selectedStatus) return true; return b.status === selectedStatus
statusFilter(b, selectedStatus) ==
    IF selectedStatus = "" THEN TRUE ELSE b.status = selectedStatus

\* new Date(s) with setUTCHours(0, 0, 0, 0): the UTC day of the string
UTCDay(bookingDate) == bookingDate.ymd

\* the date filter; startDate and endDate are 0 for the empty string
dateFilter(b, startDate, endDate) ==
    IF startDate = 0 /\ endDate = 0 THEN TRUE
    ELSE LET isAfterStart == IF startDate # 0 THEN UTCDay(b.bookingDate) >= startDate ELSE TRUE
             isBeforeEnd == IF endDate # 0 THEN UTCDay(b.bookingDate) <= endDate ELSE TRUE
         IN  isAfterStart /\ isBeforeEnd

\* the search filter over teacherName, equipment, classroom and lessonPlanName
searchFilter(b, searchQuery) ==
    IF searchQuery = <<>> THEN TRUE
    ELSE LET lowerQuery == ToLowerCase(searchQuery)
         IN  \/ Includes(ToLowerCase(Chars(b.teacherName)), lowerQuery)
             \/ \E k \in DOMAIN b.equipment : Includes(ToLowerCase(b.equipment[k]), lowerQuery)
             \/ Includes(ToLowerCase(Chars(b.classroom)), lowerQuery)
             \/ Includes(ToLowerCase(Chars(b.lessonPlanName)), lowerQuery)

\* bookings.filter(status).filter(date).filter(search)
displayedBookings(cache, selectedStatus, startDate, endDate, searchQuery) ==
    SelectSeq(SelectSeq(SelectSeq(cache, LAMBDA b : statusFilter(b, selectedStatus)),
                        LAMBDA b : dateFilter(b, startDate, endDate)),
              LAMBDA b : searchFilter(b, searchQuery))

\* ReportsPage as it renders with the filters given
ReportsPage(selectedStatus, startDate, endDate, searchQuery) ==
    [selectedStatus |-> selectedStatus, startDate |-> startDate, endDate |-> endDate,
     searchQuery |-> searchQuery,
     displayedBookings |-> displayedBookings(bookings, selectedStatus, startDate, endDate,
                                             searchQuery)]

\* the route /reports is entered: adminOnly, every filter ''
OpenReports ==
    /\ user # None
    /\ user.role = "admin"
    /\ report = None
    /\ report' = ReportsPage("", 0, 0, <<>>)
    /\ schedule' = None
    /\ UNCHANGED <<storeVars, authVars>>

setSelectedStatus(selectedStatus) ==
    /\ report # None
    /\ report' = ReportsPage(selectedStatus, report.startDate, report.endDate,
                             report.searchQuery)
    /\ UNCHANGED <<schedule, storeVars, authVars>>

setStartDate(startDate) ==
    /\ report # None
    /\ report' = ReportsPage(report.selectedStatus, startDate, report.endDate,
                             report.searchQuery)
    /\ UNCHANGED <<schedule, storeVars, authVars>>

setEndDate(endDate) ==
    /\ report # None
    /\ report' = ReportsPage(report.selectedStatus, report.startDate, endDate,
                             report.searchQuery)
    /\ UNCHANGED <<schedule, storeVars, authVars>>

setSearchQuery(searchQuery) ==
    /\ report # None
    /\ report' = ReportsPage(report.selectedStatus, report.startDate, report.endDate,
                             searchQuery)
    /\ UNCHANGED <<schedule, storeVars, authVars>>

---------------------------------------------------------------------------
(* AuthProvider: login, logout, the persisted identity *)

\* `password?: string` left out of a User
NoPassword == "undefined"

\* a User (src/unnamed/part_000)
User(id, name, username, role, password) ==
    [id |-> id, name |-> name, username |-> username, role |-> role,
     password |-> password]

Admin == User(1, "Admin", "admin", "admin", NoPassword)
Teacher == User(2, "Kru A", "krua", "teacher", NoPassword)
Colleague == User(3, "Kru B", "krub", "teacher", NoPassword)

\* the secret typed into the login form
Secret == "pw"

\* What api.login can resolve with: null, a user, or a user record that still
\* carries its password column
LoginAnswers ==
    {None, Admin, Teacher, [Admin EXCEPT !.password = Secret],
     [Teacher EXCEPT !.password = Secret]}

\* JSON.stringify(loggedInUser): the properties in order, undefined ones left out
Stringify(u) ==
    <<<<"id", u.id>>, <<"name", u.name>>, <<"username", u.username>>>>
    \o (IF u.password = NoPassword THEN <<>> ELSE <<<<"password", u.password>>>>)
    \o <<<<"role", u.role>>>>

\* localStorage.getItem('currentUser') of a missing item: null, falsy like ''
NoItem == <<>>

\* the value of property key in the JSON text, undefined when it has none
Property(json, key, undefined) ==
    IF \E i \in DOMAIN json : json[i][1] = key
    THEN json[CHOOSE i \in DOMAIN json : json[i][1] = key][2]
    ELSE undefined

\* the mount effect: setUser(JSON.parse(storedUser)) when the item is there
Parse(json) ==
    IF json = NoItem THEN None
    ELSE User(Property(json, "id", 0), Property(json, "name", ""),
              Property(json, "username", ""), Property(json, "role", ""),
              Property(json, "password", NoPassword))

\* One login call awaiting api.login.  loggedOut is history: logout() ran while
\* the call was awaiting and no login started after that logout has succeeded.
Login(username, password) ==
    [username |-> username, password |-> password, loggedOut |-> FALSE]

\* history: logout() runs over the calls awaiting
DuringLogout(calls) == [k \in DOMAIN calls |-> [calls[k] EXCEPT !.loggedOut = TRUE]]

\* history: the login `call` got loggedInUser; when it was started after the
\* last logout and succeeds, the calls still awaiting are no longer marked
AfterLogin(calls, call, loggedInUser) ==
    IF loggedInUser # None /\ ~call.loggedOut
    THEN [k \in DOMAIN calls |-> [calls[k] EXCEPT !.loggedOut = FALSE]]
    ELSE calls

\* login(username, password) up to `await api.login(username, password)`
LoginCall(username, password) ==
    /\ Len(logins) < MaxLogins
    /\ isLoading' = TRUE
    /\ logins' = Append(logins, Login(username, password))
    /\ UNCHANGED <<user, localStorage, loginResult>>
    /\ UNCHANGED <<storeVars, viewVars>>

\* A plausible slip: login reports success whatever api.login gave
LoginOutcomeAlwaysTrue(loggedInUser) ==
    IF loggedInUser # None
    THEN [stored |-> Stringify(loggedInUser), user |-> loggedInUser, result |-> TRUE]
    ELSE [stored |-> NoItem, user |-> None, result |-> TRUE]

\* if (loggedInUser) { setItem; setUser; return true } removeItem; setUser(null); return false
LoginOutcome(loggedInUser) ==
    IF loggedInUser # None
    THEN [stored |-> Stringify(loggedInUser), user |-> loggedInUser, result |-> TRUE]
    ELSE [stored |-> NoItem, user |-> None, result |-> FALSE]

\* api.login resolved with loggedInUser; finally setIsLoading(false)
LoginOk(i, loggedInUser) ==
    /\ i \in DOMAIN logins
    /\ localStorage' = LoginOutcome(loggedInUser).stored
    /\ user' = LoginOutcome(loggedInUser).user
    /\ loginResult' = LoginOutcome(loggedInUser).result
    /\ isLoading' = FALSE
    /\ logins' = AfterLogin(RemoveAt(logins, i), logins[i], loggedInUser)
    /\ UNCHANGED <<storeVars, viewVars>>

\* api.login rejected: the catch clears, returns false; finally setIsLoading(false)
LoginFail(i) ==
    /\ i \in DOMAIN logins
    /\ localStorage' = NoItem
    /\ user' = None
    /\ loginResult' = FALSE
    /\ isLoading' = FALSE
    /\ logins' = RemoveAt(logins, i)
    /\ UNCHANGED <<storeVars, viewVars>>

\* A plausible slip: the item is left in localStorage
StorageKept(stored) == stored

\* localStorage.removeItem('currentUser')
RemoveItem(stored) == NoItem

\* logout(): localStorage.removeItem('currentUser'); setUser(null)
logout ==
    /\ localStorage' = RemoveItem(localStorage)
    /\ user' = None
    /\ logins' = DuringLogout(logins)
    /\ UNCHANGED <<isLoading, loginResult>>
    /\ UNCHANGED <<storeVars, viewVars>>

---------------------------------------------------------------------------
(* The application: BookingsProvider mounted, its first fetchBookings() sent *)

\* time passes
Tick ==
    /\ clock < MaxClock
    /\ clock' = clock + 1
    /\ UNCHANGED <<bookings, loading, inflight, swal, thrown, started, form, rawInput, sanitized>>
    /\ response' = None
    /\ UNCHANGED <<authVars, viewVars>>

\* the forms submitted in the application
FormInputs ==
    { Form("book", ClassA, 3, 22, <<TV>>, <<>>, ""),
      Form("borrow", ClassB, 3, 22, <<>>, <<SP, "r">>, ""),
      Form("book", ClassB, 3, 22, <<>>, <<SP>>, "") }

Init ==
    /\ bookings = <<>>
    /\ loading = TRUE
    /\ clock = 1
    /\ inflight = <<Call("fetch", "effect", 0, "", NoData, <<>>, "request", <<>>)>>
    /\ swal = None
    /\ thrown = FALSE
    /\ started = 1
    /\ form = None
    /\ response = None
    /\ rawInput = None
    /\ sanitized = None
    /\ user = Admin
    /\ isLoading = FALSE
    /\ localStorage = Stringify(Admin)
    /\ logins = <<>>
    /\ loginResult = FALSE
    /\ schedule = None
    /\ report = None

Next ==
    \/ Tick
    \/ CloseSwal
    \/ RefetchEffect
    \/ \E i \in DOMAIN inflight, data \in FetchAnswers : FetchBookingsOk(i, data)
    \/ \E i \in DOMAIN inflight : FetchBookingsFail(i)
    \/ \E fields \in FormInputs : handleSubmit(fields)
    \/ \E i \in DOMAIN inflight : CreateBookingOk(i)
    \/ \E i \in DOMAIN inflight : CreateBookingFail(i)
    \/ \E id \in ServerIds : handleReturn(id)
    \/ \E id \in ServerIds : handleDelete(id)
    \/ \E id \in ServerIds : handleCancelBooking(id)
    \/ ConfirmDialog
    \/ DismissDialog
    \/ \E id \in ServerIds : \E rendered \in ConsumerRenders : DeleteBookingCall(id, rendered)
    \/ \E i \in DOMAIN inflight : RemoteRequestOk(i)
    \/ \E i \in DOMAIN inflight : RemoteRequestFail(i)
    \/ \E i \in DOMAIN inflight, data \in FetchAnswers : SilentRefreshOk(i, data)
    \/ \E i \in DOMAIN inflight : SilentRefreshFail(i)

Spec == Init /\ [][Next]_vars

---------------------------------------------------------------------------
(* The booking form alone: one submit against a cache a fetch has filled *)

\* the records the form's caches are drawn from: every status, both classrooms,
\* period 3, with the date and the equipment in each of the stored shapes
FormPool ==
    { RawBooking(1, status, classroom, 3, shape[1], shape[2], 1, "book") :
        status \in ALL_STATUSES,
        classroom \in {ClassA, ClassB},
        shape \in { <<PlainDate(22), ArrayOf(<<<<SP>> \o TV>>)>>,
                    <<Timestamp(22, 17), StringOf(REMOTE \o <<COMMA, SP>> \o TV)>> } }

FormCaches == {sortedData(data) : data \in SeqsUpTo(FormPool, MaxFetch)}

\* the forms submitted: complete ones, and ones with one required field left out
FormFields ==
    { Form("book", classroom, period, day, selected, other, "") :
        classroom \in {ClassA, ClassB}, period \in {3, 4}, day \in {22, 23},
        selected \in {<<>>, <<TV>>},
        other \in {<<>>, <<SP, "r">>, <<"x">>} }
    \cup
    { Form("borrow", classroom, 3, day, <<TV>>, <<>>, "") :
        classroom \in {ClassA, ClassB}, day \in {22, 23} }
    \cup
    { Form("borrow", ClassA, 3, 22, <<TV>>, <<SP>>, blank) :
        blank \in {"teacherName", "program", "learningUnitNumber",
                   "learningUnitName", "lessonPlanName"} }
    \cup
    { Form("book", "", 3, 22, <<TV>>, <<>>, ""),
      Form("book", ClassA, 0, 22, <<TV>>, <<>>, ""),
      Form("book", ClassA, 3, 0, <<TV>>, <<>>, "") }

InitForm ==
    /\ bookings \in FormCaches
    /\ loading = FALSE
    /\ clock = 1
    /\ inflight = <<>>
    /\ swal = None
    /\ thrown = FALSE
    /\ started = 1
    /\ form = None
    /\ response = None
    /\ rawInput = None
    /\ sanitized = None
    /\ user = Admin
    /\ isLoading = FALSE
    /\ localStorage = Stringify(Admin)
    /\ logins = <<>>
    /\ loginResult = FALSE
    /\ schedule = None
    /\ report = None

NextForm == \E fields \in FormFields : handleSubmit(fields)

SpecForm == InitForm /\ [][NextForm]_vars

---------------------------------------------------------------------------
(* sanitizeBooking alone: applied once to a raw record *)

\* what an equipment array may hold, and the characters of an equipment string
RawItems == {<<>>, TV, <<SP>> \o TV}
RawChars == {"t", SP, COMMA}

RawEquipment ==
    {ArrayOf(items) : items \in SeqsUpTo(RawItems, MaxItems)}
    \cup {StringOf(text) : text \in SeqsUpTo(RawChars, MaxText)}
    \cup {OtherShape}

InitSanitize ==
    /\ response = None
    /\ rawInput \in {RawBooking(1, "Booked", ClassA, 3, PlainDate(22), equipment, 1, "book") :
                        equipment \in RawEquipment}
    /\ sanitized = None
    /\ bookings = <<>>
    /\ loading = TRUE
    /\ clock = 1
    /\ inflight = <<>>
    /\ swal = None
    /\ thrown = FALSE
    /\ started = 0
    /\ form = None
    /\ user = None
    /\ isLoading = FALSE
    /\ localStorage = NoItem
    /\ logins = <<>>
    /\ loginResult = FALSE
    /\ schedule = None
    /\ report = None

\* const sanitized = sanitizeBooking(rawInput)
Sanitize ==
    /\ sanitized = None
    /\ sanitized' = sanitizeBooking(rawInput)
    /\ UNCHANGED <<bookings, loading, clock, inflight, swal, thrown, started, form,
                   rawInput>>
    /\ response' = None
    /\ UNCHANGED <<authVars, viewVars>>

SpecSanitize == InitSanitize /\ [][Sanitize]_vars

---------------------------------------------------------------------------
(* AuthProvider alone, beside a cache that a fetch has filled *)

AuthCaches == {<<>>} \cup {<<sanitizeBooking(b)>> : b \in ServerPool}

\* the state after the mount effect has read localStorage
InitAuth ==
    /\ bookings \in AuthCaches
    /\ loading = FALSE
    /\ clock = 1
    /\ inflight = <<>>
    /\ swal = None
    /\ thrown = FALSE
    /\ started = 1
    /\ form = None
    /\ response = None
    /\ rawInput = None
    /\ sanitized = None
    /\ localStorage \in {NoItem, Stringify(Admin), Stringify(Teacher)}
    /\ user = Parse(localStorage)
    /\ isLoading = FALSE
    /\ logins = <<>>
    /\ loginResult = FALSE
    /\ schedule = None
    /\ report = None

NextAuth ==
    \/ \E username \in {"admin", "krua"} : LoginCall(username, Secret)
    \/ \E i \in DOMAIN logins, loggedInUser \in LoginAnswers : LoginOk(i, loggedInUser)
    \/ \E i \in DOMAIN logins : LoginFail(i)
    \/ logout

SpecAuth == InitAuth /\ [][NextAuth]_vars

---------------------------------------------------------------------------
(* This client alone: the form and the status buttons over a cache that a     *)
(* fetch has filled, with no getBookings response arriving any more           *)

\* caches without two active bookings of one day, period and classroom
ClientCaches ==
    {<<>>}
    \cup {<<sanitizeBooking(b)>> : b \in ServerPool}
    \cup {sortedData(<<RawBooking(1, "Booked", ClassA, 3, PlainDate(22), ArrayOf(<<TV>>), 1, "book"),
                       RawBooking(2, "In Use", ClassB, 3, Timestamp(21, 17),
                                  StringOf(<<"r", COMMA, SP>>), 2, "borrow")>>)}

InitClient ==
    /\ bookings \in ClientCaches
    /\ loading = FALSE
    /\ clock = 1
    /\ inflight = <<>>
    /\ swal = None
    /\ thrown = FALSE
    /\ started = 1
    /\ form = None
    /\ response = None
    /\ rawInput = None
    /\ sanitized = None
    /\ user = Admin
    /\ isLoading = FALSE
    /\ localStorage = Stringify(Admin)
    /\ logins = <<>>
    /\ loginResult = FALSE
    /\ schedule = None
    /\ report = None

NextClient ==
    \/ Tick
    \/ CloseSwal
    \/ \E fields \in FormInputs : handleSubmit(fields)
    \/ \E i \in DOMAIN inflight : CreateBookingOk(i)
    \/ \E i \in DOMAIN inflight : CreateBookingFail(i)
    \/ \E id \in ServerIds : handleReturn(id)
    \/ \E id \in ServerIds : handleDelete(id)
    \/ \E id \in ServerIds : handleCancelBooking(id)
    \/ ConfirmDialog
    \/ DismissDialog
    \/ \E i \in DOMAIN inflight : RemoteRequestOk(i)
    \/ \E i \in DOMAIN inflight : RemoteRequestFail(i)
    \/ \E i \in DOMAIN inflight : SilentRefreshFail(i)

SpecClient == InitClient /\ [][NextClient]_vars

---------------------------------------------------------------------------
(* The schedule and the reports pages alone, over a cache that a fetch has filled *)

\* the records the pages' caches are drawn from: active and terminal ones in
\* both classrooms with the date in both stored shapes, and some of another
\* period, teacher and day
ViewPool ==
    { RawBooking(1, status, classroom, 3, bookingDate, ArrayOf(<<TV>>), 1, "book") :
        status \in {"Booked", "Cancelled", "Returned"},
        classroom \in {ClassA, ClassB},
        bookingDate \in {PlainDate(22), Timestamp(21, 17)} }
    \cup
    { [RawBooking(2, "In Use", ClassA, 3, PlainDate(22), StringOf(REMOTE), 2, "borrow")
          EXCEPT !.teacherName = "Kru B"],
      [RawBooking(2, "Awaiting Return", ClassA, 4, Timestamp(22, 3), ArrayOf(<<TV>>), 2, "book")
          EXCEPT !.teacherName = "Kru B"],
      RawBooking(2, "Booked", ClassB, 4, PlainDate(23), ArrayOf(<<REMOTE>>), 2, "book") }

ViewCaches == {sortedData(data) : data \in SeqsUpTo(ViewPool, MaxFetch)}

InitView ==
    /\ bookings \in ViewCaches
    /\ loading = FALSE
    /\ clock = 1
    /\ inflight = <<>>
    /\ swal = None
    /\ thrown = FALSE
    /\ started = 1
    /\ form = None
    /\ response = None
    /\ rawInput = None
    /\ sanitized = None
    /\ user \in {Admin, Teacher, Colleague}
    /\ localStorage = Stringify(user)
    /\ isLoading = FALSE
    /\ logins = <<>>
    /\ loginResult = FALSE
    /\ schedule = None
    /\ report = None

\* the values the report's filters are set to
ReportDays == {0, 22, 23}
ReportQueries == {<<>>, <<"K", "r", "u", SP, "B">>, <<"t", "v">>}

NextView ==
    \/ \E selectedDate \in ScheduleDays : setSelectedDate(selectedDate)
    \/ OpenReports
    \/ \E selectedStatus \in ALL_STATUSES \cup {""} : setSelectedStatus(selectedStatus)
    \/ \E startDate \in ReportDays : setStartDate(startDate)
    \/ \E endDate \in ReportDays : setEndDate(endDate)
    \/ \E searchQuery \in ReportQueries : setSearchQuery(searchQuery)

SpecView == InitView /\ [][NextView]_vars

---------------------------------------------------------------------------
(* What the claims speak of, stated without the operators of handleSubmit *)

\* the proposal's items: the ticked ones and the free-text one, trimmed
ProposalItems(f) ==
    {Trim(f.selectedEquipment[i]) : i \in DOMAIN f.selectedEquipment}
    \cup (IF Trim(f.otherEquipment) = <<>> THEN {} ELSE {Trim(f.otherEquipment)})

\* b is active and its calendar date (the date part of the stored string, any
\* time of day dropped) and period are the proposal's
SameDateAndPeriod(b, f) ==
    /\ b.status \in {"Booked", "In Use", "Awaiting Return"}
    /\ b.bookingDate.ymd = f.bookingDate
    /\ b.period = f.period

ClassroomTaken(f, cache) ==
    \E i \in DOMAIN cache : SameDateAndPeriod(cache[i], f) /\ cache[i].classroom = f.classroom

EquipmentTaken(f, cache) ==
    \E i \in DOMAIN cache :
        /\ SameDateAndPeriod(cache[i], f)
        /\ \E j \in DOMAIN cache[i].equipment : Trim(cache[i].equipment[j]) \in ProposalItems(f)

\* the Asia/Bangkok calendar day of a stored date: the instant it denotes (a
\* plain date is midnight UTC) seven hours on, cut to whole days
BangkokDay(stored) ==
    (stored.ymd * 24 + (IF stored.time = -1 THEN 0 ELSE stored.time) + 7) \div 24

Terminal(b) == b.status \in {"Cancelled", "Returned"}

WithoutTerminal(cache) == SelectSeq(cache, LAMBDA b : ~Terminal(b))

\* the submit sent a createBooking request carrying the proposal
CreateSentFor(f) ==
    /\ Len(inflight') = Len(inflight) + 1
    /\ inflight'[Len(inflight')].op = "create"
    /\ inflight'[Len(inflight')].data.classroom = f.classroom
    /\ inflight'[Len(inflight')].data.period = f.period
    /\ inflight'[Len(inflight')].data.bookingDate = PlainDate(f.bookingDate)
    /\ Range(inflight'[Len(inflight')].data.equipment) = ProposalItems(f)

---------------------------------------------------------------------------
(* Claims on the booking form (checked under SpecForm) *)

C8_RejectedTouchesNothing ==
    [][\A f \in FormFields :
          (handleSubmit(f)
           /\ (FieldMissing(f) \/ ClassroomTaken(f, bookings) \/ EquipmentTaken(f, bookings)))
          => (bookings' = bookings /\ inflight' = inflight /\ started' = started)]_vars

\* C8 witness: the validation popup is up over a cache that a fetch has filled,
\* with nothing in flight.
C8_Witness ==
    /\ swal = Alert("formValidationError")
    /\ FieldMissing(form)
    /\ Len(bookings) > 0
    /\ inflight = <<>>

\* C20: the record that createBooking inserts for an accepted proposal is In Use
\* for a borrow and Booked for a book; from that step on it passes the filters
\* of the conflict check (the same proposal is now refused for its classroom)
\* and of the schedule (its cell of its day is taken).
C20_PlaceholderStatus ==
    [][\A f \in FormFields :
          (handleSubmit(f) /\ CreateSentFor(f))
          => /\ bookings'[1].optimistic
             /\ bookings'[1].status = IF f.type = "borrow" THEN "In Use" ELSE "Booked"
             /\ bookings'[1].status \in {"Booked", "In Use", "Awaiting Return"}
             /\ SubmitOutcome(f, bookings') = "bookingConflictTitle"
             /\ \E k \in DOMAIN bookingsOnDate(bookings', f.bookingDate) :
                   bookingsOnDate(bookings', f.bookingDate)[k] = bookings'[1]
             /\ <<f.classroom, f.period>>
                    \in DOMAIN bookingsForDateMap(bookings', f.bookingDate)]_vars

\* C20 witness: a borrow went through and its placeholder, In Use, heads the cache.
C20_Witness ==
    /\ swal = Loader
    /\ form.type = "borrow"
    /\ bookings[1].optimistic
    /\ bookings[1].status = "In Use"
    /\ Len(bookings) > 1

\* C25: the conflict check of a submitted form and the schedule of the form's
\* date take the same stored bookings to be on that date: the active bookings
\* that the form compares the proposal with are those of the proposal's period
\* that the schedule shows on its date.
C25_SameDayInFormAndSchedule ==
    [][\A f \in FormFields :
          (handleSubmit(f) /\ ~FieldMissing(f))
          => Range(bookingsAtSameTime(f, bookings))
                 = {b \in Range(bookingsOnDate(bookings, f.bookingDate)) :
                       b.period = f.period}]_vars

---------------------------------------------------------------------------
(* Claims on the schedule and the reports (checked under SpecView) *)

\* the cache positions of the active bookings of a classroom and period on a day
Holders(cache, day, classroom, period) ==
    {i \in DOMAIN cache :
        /\ cache[i].status \in {"Booked", "In Use", "Awaiting Return"}
        /\ cache[i].classroom = classroom
        /\ cache[i].period = period
        /\ BangkokDay(cache[i].bookingDate) = day}

\* C21: the grid of the selected date shows a booking in the cell of a classroom
\* and period exactly when an active booking of the cache has that classroom
\* and period and a stored date that is the selected date in Asia/Bangkok; the
\* booking shown is one of those, and a cell without one is the Available button.
C21_ScheduleMap ==
    schedule # None
    => \A classroom \in Classrooms, period \in Periods :
          LET cell == schedule.cells[<<classroom, period>>]
              holders == Holders(bookings, schedule.selectedDate, classroom, period)
          IN  /\ (cell.kind = "booked") <=> (holders # {})
              /\ cell.kind = "booked" => \E i \in holders : cell.booking = bookings[i]
              /\ holders = {} => cell = [kind |-> "available"]

\* C21 witness: a booking stored as the timestamp of 17:00 UTC of the 21st is
\* shown on the 22nd, beside a cell that a Cancelled booking leaves available.
C21_Witness ==
    /\ schedule # None
    /\ schedule.selectedDate = 22
    /\ schedule.cells[<<ClassA, 3>>].kind = "booked"
    /\ schedule.cells[<<ClassA, 3>>].booking.bookingDate = [ymd |-> 21, time |-> 17]
    /\ schedule.cells[<<ClassB, 3>>].kind = "available"
    /\ \E i \in DOMAIN bookings :
          bookings[i].classroom = ClassB /\ bookings[i].status = "Cancelled"

\* C22: with a status selected and neither date bound nor search text, the
\* report lists exactly the cache records of that status, in cache order; with
\* no status selected no record is left out for its status: without the other
\* filters the whole cache is listed, and with them every record that is listed
\* under some selected status.
C22_ReportStatusFilter ==
    report # None
    => /\ (report.startDate = 0 /\ report.endDate = 0 /\ report.searchQuery = <<>>)
          => report.displayedBookings
                 = IF report.selectedStatus = "" THEN bookings
                   ELSE SelectSeq(bookings, LAMBDA b : b.status = report.selectedStatus)
       /\ report.selectedStatus = ""
          => \A status \in {"Booked", "In Use", "Awaiting Return", "Returned", "Cancelled"} :
                \A b \in Range(displayedBookings(bookings, status, report.startDate,
                                                  report.endDate, report.searchQuery)) :
                    b \in Range(report.displayedBookings)

\* C22 witness: with Cancelled selected the report lists the one Cancelled
\* record of a cache that also holds a Booked one.
C22_Witness ==
    /\ report # None
    /\ report.selectedStatus = "Cancelled"
    /\ report.startDate = 0
    /\ report.endDate = 0
    /\ report.searchQuery = <<>>
    /\ Len(bookings) = 2
    /\ bookings[1].status = "Booked"
    /\ Len(report.displayedBookings) = 1
    /\ report.displayedBookings[1].status = "Cancelled"

\* C30: a cell of the schedule carries the cancel button only when a user is
\* logged in who is an admin or whose name is the booking's teacherName, and
\* the booking shown is neither Returned nor Cancelled.
C30_CancelOffered ==
    schedule # None
    => \A cell \in Classrooms \X Periods :
          (schedule.cells[cell].kind = "booked" /\ schedule.cells[cell].cancelButton)
          => /\ user # None
             /\ (user.role = "admin"
                 \/ user.name = schedule.cells[cell].booking.teacherName)
             /\ schedule.cells[cell].booking.status \notin {"Returned", "Cancelled"}

\* C30 witness: a teacher sees the cancel button on the booking in their own
\* name and none on a colleague's booking in the same grid.
C30_Witness ==
    /\ schedule # None
    /\ user.role = "teacher"
    /\ schedule.cells[<<ClassB, 3>>].kind = "booked"
    /\ schedule.cells[<<ClassB, 3>>].booking.teacherName = user.name
    /\ schedule.cells[<<ClassB, 3>>].cancelButton
    /\ schedule.cells[<<ClassA, 3>>].kind = "booked"
    /\ schedule.cells[<<ClassA, 3>>].booking.teacherName # user.name
    /\ ~schedule.cells[<<ClassA, 3>>].cancelButton

---------------------------------------------------------------------------
(* Claim on sanitizeBooking (checked under SpecSanitize) *)

\* C9: whatever the shape of the raw equipment, the record sanitizeBooking
\* returns lists only non-empty strings.
C9_EquipmentNonEmpty ==
    sanitized # None
    => \A i \in DOMAIN sanitized.equipment : sanitized.equipment[i] # <<>>

---------------------------------------------------------------------------
(* Claims on the store (checked under Spec) *)

\* C1: when the createBooking request of a call fails and no other store
\* operation has run since the call started, the cache is again the cache of
\* just before the call, and handleSubmit is handed the error (it shows
\* bookingSaveError).
C1_CreateFailureRestores ==
    [][\A i \in DOMAIN inflight :
          (CreateBookingFail(i) /\ inflight[i].clean)
          => (bookings' = inflight[i].pre /\ swal' = Alert("bookingSaveError"))]_vars

\* C2: when the remote request of updateBookingStatus or deleteBooking fails,
\* the cache is again the cache of the moment that call started.
C2_MutationFailureRestores ==
    [][\A i \in DOMAIN inflight :
          RemoteRequestFail(i) => bookings' = inflight[i].pre]_vars

\* C3: the cache holds a placeholder record only while the createBooking call
\* that put it there is pending.
C3_NoStrayPlaceholder ==
    \A k \in DOMAIN bookings :
        bookings[k].optimistic
        => \E i \in DOMAIN inflight :
              inflight[i].op = "create" /\ inflight[i].id = bookings[k].id

Count(s, x) == Cardinality({k \in DOMAIN s : s[k] = x})

\* C10: right after a successful fetchBookings (silent or not) the cache is
\* exactly the fetched records, each as sanitizeBooking gives it, newest
\* createdAt first; nothing of the former cache is in it.
C10_FetchReplaces ==
    response.kind = "answer"
    => /\ Len(bookings) = Len(response.data)
       /\ \A k \in DOMAIN response.data :
             Count(bookings, sanitizeBooking(response.data[k]))
                 = Count([j \in DOMAIN response.data |-> sanitizeBooking(response.data[j])],
                         sanitizeBooking(response.data[k]))
       /\ \A k \in 1..(Len(bookings) - 1) :
             bookings[k].createdAt >= bookings[k + 1].createdAt

\* C10 witness: a silent refresh has answered and the cache is its two records,
\* the newer first, its comma-joined equipment split into items.
C10_Witness ==
    /\ swal = Alert("returnSuccess")
    /\ response.kind = "answer"
    /\ Len(response.data) = 2
    /\ response.data[1].createdAt < response.data[2].createdAt
    /\ Len(bookings) = 2
    /\ bookings[1].createdAt > bookings[2].createdAt
    /\ bookings[1].equipment = <<REMOTE>>
    /\ bookings[2].status = "Booked"

\* C11: a failed fetchBookings leaves the cache as it was; the non-silent call
\* shows fetchBookingsError, the silent one opens no such popup.
C11_FetchFailureKeepsCache ==
    [][\A i \in DOMAIN inflight :
          /\ FetchBookingsFail(i)
             => (bookings' = bookings /\ swal' = Alert("fetchBookingsError"))
          /\ SilentRefreshFail(i)
             => /\ bookings' = bookings
                /\ (swal' = Alert("fetchBookingsError")
                    => swal = Alert("fetchBookingsError"))]_vars

\* C11 witness: fetchBookingsError is up over a cache that an earlier fetch filled.
C11_Witness ==
    /\ swal = Alert("fetchBookingsError")
    /\ Len(bookings) > 0
    /\ ~loading

\* C12: when the createBooking request succeeds and no other store operation
\* has run since the call started, the cache is the server's record (no
\* placeholder any more) at the head, followed by the records of before the
\* call, unchanged and in their order.
C12_CreateSuccessReplacesInPlace ==
    [][\A i \in DOMAIN inflight :
          (CreateBookingOk(i) /\ inflight[i].clean)
          => /\ Len(bookings') = Len(inflight[i].pre) + 1
             /\ Tail(bookings') = inflight[i].pre
             /\ ~bookings'[1].optimistic
             /\ bookings'[1].classroom = inflight[i].data.classroom]_vars

\* C13: when the silent refresh of updateBookingStatus or deleteBooking fails,
\* the cache is again the cache of the moment the call started and the handler
\* is handed the error (it shows its error popup).
C13_RefreshFailureRestores ==
    [][\A i \in DOMAIN inflight :
          SilentRefreshFail(i)
          => /\ bookings' = inflight[i].pre
             /\ (inflight[i].caller # "consumer" => swal' = ErrorAlert(inflight[i]))
             /\ (inflight[i].caller = "consumer" => thrown')]_vars

\* the cache holds the optimistic change of a pending mutation
ContainsChange(call, cache) ==
    IF call.op = "create"
    THEN \E k \in DOMAIN cache : cache[k].optimistic /\ cache[k].id = call.id
    ELSE IF call.op = "update"
    THEN \A k \in DOMAIN cache : cache[k].id = call.id => cache[k].status = call.status
    ELSE \A k \in DOMAIN cache : cache[k].id # call.id

\* C14: when a mutation starts right after another one whose request is still
\* pending (no store operation in between), the cache it rewrites holds the
\* first one's optimistic change, and so does the snapshot it keeps for its
\* rollback.
C14_SecondSeesFirst ==
    [][(/\ Len(inflight') = Len(inflight) + 1
        /\ inflight # <<>>
        /\ inflight[Len(inflight)].op \in {"create", "update", "delete"}
        /\ inflight[Len(inflight)].phase = "request"
        /\ inflight[Len(inflight)].clean
        /\ inflight'[Len(inflight')].op \in {"create", "update", "delete"})
       => /\ ContainsChange(inflight[Len(inflight)], inflight'[Len(inflight')].pre)
          /\ (inflight'[Len(inflight')].op # "create"
              => ContainsChange(inflight[Len(inflight)],
                                inflight'[Len(inflight')].originalBookings))]_vars

\* one step of the lifecycle Booked, In Use, Awaiting Return, Returned, with
\* Cancelled from any status but Returned and Cancelled
LifecycleStep(old, new) ==
    \/ <<old, new>> \in {<<"Booked", "In Use">>, <<"In Use", "Awaiting Return">>,
                         <<"Awaiting Return", "Returned">>}
    \/ (new = "Cancelled" /\ old \notin {"Returned", "Cancelled"})

\* C15: every change of a record's status that a confirmed return, delete or
\* cancel applies through updateBookingStatus is one step of the lifecycle.
C15_StatusLifecycle ==
    [][ConfirmDialog
       => \A k \in DOMAIN bookings :
             bookings'[k].status # bookings[k].status
             => LifecycleStep(bookings[k].status, bookings'[k].status)]_vars

\* C23: the optimistic step of updateBookingStatus(id, status) keeps the length
\* and the order of the cache; a record with that id differs from what it was in
\* its status only, every other record is what it was, and a cache without
\* that id is unchanged.
C23_UpdateTouchesStatusOnly ==
    [][ConfirmDialog
       => /\ Len(bookings') = Len(bookings)
          /\ \A k \in DOMAIN bookings :
                bookings'[k] = IF bookings[k].id = swal.id
                               THEN [bookings[k] EXCEPT !.status = swal.status]
                               ELSE bookings[k]
          /\ (\A k \in DOMAIN bookings : bookings[k].id # swal.id)
             => bookings' = bookings]_vars

\* C23 witness: an update has just started on a cache of two records and has
\* changed the status of one of them, the other one being as it was.
C23_Witness ==
    /\ inflight # <<>>
    /\ inflight[Len(inflight)].op = "update"
    /\ inflight[Len(inflight)].phase = "request"
    /\ inflight[Len(inflight)].clean
    /\ Len(bookings) = 2
    /\ Len(inflight[Len(inflight)].pre) = 2
    /\ \E k \in 1..2 :
          /\ bookings[k].status # inflight[Len(inflight)].pre[k].status
          /\ bookings[3 - k] = inflight[Len(inflight)].pre[3 - k]
          /\ bookings[3 - k].id # bookings[k].id

\* C24: the dashboard's delete calls updateBookingStatus(id, Cancelled) and
\* never deleteBooking: no call of handleDelete is a delete; its optimistic
\* step removes nothing and leaves the records of that id Cancelled, so none
\* of them is active; and when the gateway has answered the request they are
\* still in the cache.
C24_DeleteIsCancellation ==
    [][/\ \A i \in DOMAIN inflight' :
             inflight'[i].caller = "handleDelete"
             => (inflight'[i].op = "update" /\ inflight'[i].status = "Cancelled")
       /\ (ConfirmDialog /\ swal.handler = "handleDelete")
          => /\ inflight'[Len(inflight')].caller = "handleDelete"
             /\ inflight'[Len(inflight')].id = swal.id
             /\ Len(bookings') = Len(bookings)
             /\ \A k \in DOMAIN bookings :
                   /\ bookings'[k].id = bookings[k].id
                   /\ bookings[k].id = swal.id => bookings'[k].status = "Cancelled"
                   /\ bookings'[k].id = swal.id
                      => bookings'[k].status \notin {"Booked", "In Use", "Awaiting Return"}
       /\ \A i \in DOMAIN inflight :
             (RemoteRequestOk(i) /\ inflight[i].caller = "handleDelete")
             => bookings' = bookings]_vars

\* C24 witness: the gateway has answered the request of a dashboard delete and
\* the booking is in the cache, Cancelled.
C24_Witness ==
    \E i \in DOMAIN inflight :
        /\ inflight[i].caller = "handleDelete"
        /\ inflight[i].phase = "refresh"
        /\ \E k \in DOMAIN bookings :
              bookings[k].id = inflight[i].id /\ bookings[k].status = "Cancelled"

\* C26: right after createBooking has resolved, the cache holds a record with
\* the id that the server gave the created booking.
C26_CreatedRecordInCache ==
    response.kind = "created"
    => \E k \in DOMAIN bookings : bookings[k].id = response.booking.id

\* C27: when the request of updateBookingStatus or deleteBooking fails, the
\* records of the cache other than the targeted one are, in order, what they
\* were just before the rollback.
C27_RollbackKeepsOthers ==
    [][\A i \in DOMAIN inflight :
          RemoteRequestFail(i)
          => SelectSeq(bookings', LAMBDA b : b.id # inflight[i].id)
                 = SelectSeq(bookings, LAMBDA b : b.id # inflight[i].id)]_vars

\* no two active bookings of the cache share Asia/Bangkok calendar day, period
\* and classroom
NoDoubleBooking(cache) ==
    \A i, j \in DOMAIN cache :
        (/\ i # j
         /\ cache[i].status \in {"Booked", "In Use", "Awaiting Return"}
         /\ cache[j].status \in {"Booked", "In Use", "Awaiting Return"}
         /\ cache[i].period = cache[j].period
         /\ cache[i].classroom = cache[j].classroom)
        => BangkokDay(cache[i].bookingDate) # BangkokDay(cache[j].bookingDate)

\* C28 (checked under SpecClient): from a cache without double booking, the
\* form's submissions and the status updates of this client, with no record
\* coming from elsewhere, never bring two active bookings of one calendar day,
\* period and classroom into the cache.
C28_NoDoubleBooking == NoDoubleBooking(bookings)

\* C19: the placeholder id of a pending createBooking is the id of no other
\* record of the cache (fetched, confirmed by the server, or another
\* placeholder) and of no other pending create.
C19_PlaceholderIdUnique ==
    \A i \in DOMAIN inflight :
        inflight[i].op = "create"
        => /\ \A k \in DOMAIN bookings :
                 bookings[k].id = inflight[i].id => bookings[k].optimistic
           /\ Cardinality({k \in DOMAIN bookings : bookings[k].id = inflight[i].id}) <= 1
           /\ \A j \in DOMAIN inflight :
                 (j # i /\ inflight[j].op = "create") => inflight[j].id # inflight[i].id

---------------------------------------------------------------------------
(* Claims on AuthProvider (checked under SpecAuth) *)

\* C16: login hands no error to its caller; it returns true exactly when
\* api.login gave a user, who is then the current user and the persisted
\* identity; on null or on a failed call it returns false, with the current user
\* null and nothing persisted.
C16_LoginOutcome ==
    [][\A i \in DOMAIN logins :
          /\ \A loggedInUser \in LoginAnswers :
                LoginOk(i, loggedInUser)
                => /\ thrown' = thrown
                   /\ loginResult' = (loggedInUser # None)
                   /\ user' = loggedInUser
                   /\ Parse(localStorage') = loggedInUser
                   /\ (loggedInUser = None => localStorage' = NoItem)
          /\ LoginFail(i)
             => /\ thrown' = thrown
                /\ loginResult' = FALSE
                /\ user' = None
                /\ localStorage' = NoItem]_vars

\* C16 witness: a login has returned true and the teacher it was given is the
\* current user and the persisted identity.
C16_Witness ==
    /\ loginResult = TRUE
    /\ user = Teacher
    /\ Parse(localStorage) = Teacher
    /\ ~isLoading

\* the requests that the login calls awaiting have sent to the gateway
Requests(calls) == [k \in DOMAIN calls |-> <<calls[k].username, calls[k].password>>]

\* C17: logout leaves no persisted identity and no current user, in its one
\* step; it sends nothing to the gateway and leaves the cache alone.
C17_Logout ==
    [][logout
       => /\ user' = None
          /\ localStorage' = NoItem
          /\ Requests(logins') = Requests(logins)
          /\ inflight' = inflight
          /\ bookings' = bookings]_vars

\* C17 witness: after a login that returned true there is no current user and
\* nothing persisted, over a cache that holds a record.
C17_Witness ==
    /\ loginResult = TRUE
    /\ user = None
    /\ localStorage = NoItem
    /\ Len(bookings) > 0

\* C29: the response of a login call that was awaiting api.login when logout
\* ran, arriving before any login started after that logout has succeeded,
\* leaves the current user null and nothing persisted.
C29_StaleLoginIgnored ==
    [][\A i \in DOMAIN logins :
          \A loggedInUser \in LoginAnswers :
              (LoginOk(i, loggedInUser) /\ logins[i].loggedOut)
              => (user' = None /\ localStorage' = NoItem)]_vars

\* C18: neither the current user nor the persisted identity carries a password.
C18_NoSecretKept ==
    /\ user # None => user.password = NoPassword
    /\ Property(localStorage, "password", NoPassword) = NoPassword

====
